---- MODULE Spec2Model ----
(***************************************************************************)
(* Model of src/app/main.py: one Streamlit session.  Every user            *)
(* interaction re-runs the script top to bottom; a run ("pass") reads the  *)
(* widgets, fetches the irradiance from PVGIS, falls back to manual input, *)
(* guards on the upload, runs the detector and shows areas and energy.     *)
(* Python floats are modelled as exact rationals in lowest terms.          *)
(***************************************************************************)
EXTENDS Integers, Sequences, FiniteSets, TLC

\* Largest pixel coordinate of a detection box produced by the detector.
MaxCoord == 2
\* Largest number of rows of a detection table.
MaxDetections == 2

\* ------------------------------------------------------------------------
\* Python values
\* ------------------------------------------------------------------------
None == [t |-> "None"]
\* A name that is not bound yet in this pass.
Unset == [t |-> "unset"]
Num(n, d) == [t |-> "num", n |-> n, d |-> d]
Str(s) == [t |-> "str", s |-> s]
Dict(f) == [t |-> "dict", items |-> f]
EmptyItems == [k \in {} |-> None]

Abs(x) == IF x < 0 THEN -x ELSE x

RECURSIVE GCD(_, _)
GCD(a, b) == IF b = 0 THEN a ELSE GCD(b, a % b)

\* The rational n/d (d > 0) in lowest terms.
Rat(n, d) == LET g == GCD(Abs(n), d) IN Num(n \div g, d \div g)

Whole(k) == Num(k, 1)
RatMul(a, b) == Rat(a.n * b.n, a.d * b.d)
RatAdd(a, b) == Rat(a.n * b.d + b.n * a.d, a.d * b.d)
RatSub(a, b) == Rat(a.n * b.d - b.n * a.d, a.d * b.d)
RatDivInt(a, k) == Rat(a.n, a.d * k)
RatLess(a, b) == a.n * b.d < b.n * a.d
RatLeq(a, b) == a.n * b.d <= b.n * a.d

\* Python truthiness of None and of a float.
Truthy(v) == IF v.t = "num" THEN v.n # 0 ELSE FALSE

\* ------------------------------------------------------------------------
\* Sidebar widgets
\* ------------------------------------------------------------------------
model_options == [Model3 |-> "models/best3.pt",
                  Model2 |-> "models/best2.pt",
                  Model1 |-> "models/best1.pt"]

DefaultLatitude == Rat(3645028, 100000)
DefaultLongitude == Rat(1073389, 100000)

\* Numbers the user types into the percentage widgets and the scale widget.
EfficiencyTyped == {Rat(185, 10), Whole(150)}
LossTyped == {Whole(10), Whole(100)}
ScaleTyped == {Rat(1, 1000), Rat(8, 100), Whole(10), Whole(20)}
ManualTyped == {Rat(55, 10)}

ScaleMin == Rat(1, 100)
ScaleMax == Whole(10)

\* st.number_input: the values the widget can return.  lo / hi are None when
\* the call passes no min_value / max_value.
NumberInput(typed, lo, hi) ==
    {v \in typed : /\ (lo.t = "num" => RatLeq(lo, v))
                   /\ (hi.t = "num" => RatLeq(v, hi))}

\* ------------------------------------------------------------------------
\* PVGIS API
\* ------------------------------------------------------------------------
DaysPerYear == 365
HttpOk == 200

Url(lat, lon) == [endpoint |-> "https://re.jrc.ec.europa.eu/api/v5_2/PVcalc",
                  lat |-> lat, lon |-> lon, outputformat |-> "json",
                  peakpower |-> 1, loss |-> 14]

\* Outcome of evaluating a Python expression.
Ok(v) == [exc |-> "", val |-> v]
Raise(e) == [exc |-> e, val |-> None]

\* A response body: text that is not JSON, or a JSON document.
NotJson == [json |-> FALSE, doc |-> None]
Json(doc) == [json |-> TRUE, doc |-> doc]

Totals(ey) ==
    Dict([k \in {"outputs"} |->
      Dict([k2 \in {"totals"} |->
        Dict([k3 \in {"fixed"} |->
          Dict([k4 \in {"E_y"} |-> ey])])])])

EyValues == <<Whole(0), Whole(365), Whole(2000)>>

\* What the network can do with the request.
Timeout == [kind |-> "exception", exc |-> "ReadTimeout",
            status_code |-> 0, body |-> NotJson]
ConnectionFailure == [kind |-> "exception", exc |-> "ConnectionError",
                      status_code |-> 0, body |-> NotJson]
Response(status, body) == [kind |-> "response", exc |-> "",
                           status_code |-> status, body |-> body]

NetOutcomes ==
    <<Timeout,
      ConnectionFailure,
      Response(404, NotJson),
      Response(500, Json(Totals(Whole(365)))),
      Response(HttpOk, NotJson),
      Response(HttpOk, Json(Dict(EmptyItems))),
      Response(HttpOk, Json(Dict([k \in {"outputs"} |-> Dict(EmptyItems)]))),
      Response(HttpOk, Json(Dict([k \in {"outputs"} |->
                 Dict([k2 \in {"totals"} |-> Dict(EmptyItems)])]))),
      Response(HttpOk, Json(Dict([k \in {"outputs"} |->
                 Dict([k2 \in {"totals"} |->
                   Dict([k3 \in {"fixed"} |-> Dict(EmptyItems)])])]))),
      Response(HttpOk, Json(Totals(Str("n/a"))))>>
    \o [i \in 1..Len(EyValues) |-> Response(HttpOk, Json(Totals(EyValues[i])))]

\* requests.get(url, timeout=10)
RequestsGet(net) == IF net.kind = "exception" THEN Raise(net.exc) ELSE Ok(net)

\* res.json()
ResJson(res) ==
    IF res.body.json THEN Ok(res.body.doc) ELSE Raise("JSONDecodeError")

\* r[key] on the outcome r of a sub-expression.
Subscript(r, key) ==
    IF r.exc # "" THEN r
    ELSE IF r.val.t # "dict" THEN Raise("TypeError")
    ELSE IF key \notin DOMAIN r.val.items THEN Raise("KeyError")
    ELSE Ok(r.val.items[key])

\* r / k on the outcome r of a sub-expression.
TrueDivFloor(r, k) ==
    IF r.exc # "" THEN r
    ELSE IF r.val.t # "num" THEN Raise("TypeError")
    ELSE Ok(Whole(r.val.n \div (r.val.d * k)))
TrueDiv(r, k) ==
    IF r.exc # "" THEN r
    ELSE IF r.val.t # "num" THEN Raise("TypeError")
    ELSE Ok(RatDivInt(r.val, k))

\* The exception classes the except clause of get_avg_irradiance catches.
ExceptRequestException(exc) == exc \in {"ReadTimeout", "ConnectionError"}
ExceptException(exc) == exc # ""

StatusErrorNoCode(code) == [kind |-> "PVGIS error", detail |-> 0, exc |-> ""]
StatusError(code) == [kind |-> "PVGIS error: status", detail |-> code, exc |-> ""]
ExcText(exc) == [kind |-> "str(e)", detail |-> 0, exc |-> exc]

\* get_avg_irradiance(lat, lon): the tuple it returns, whether res.json()
\* was called, and the exception that escapes it ("" when none does).
Returned(value, url, error, parsed) ==
    [raised |-> "", value |-> value, url |-> url, error |-> error,
     parsed |-> parsed]
Escaped(exc, url, parsed) ==
    [raised |-> exc, value |-> Unset, url |-> url, error |-> Unset,
     parsed |-> parsed]

Handle(exc, url, parsed) ==
    IF ExceptException(exc) THEN Returned(None, url, ExcText(exc), parsed)
    ELSE Escaped(exc, url, parsed)

get_avg_irradiance(lat, lon, net) ==
    LET url == Url(lat, lon)
        res == RequestsGet(net)
    IN  IF res.exc # "" THEN Handle(res.exc, url, FALSE)
        ELSE IF res.val.status_code = HttpOk
        THEN LET data == ResJson(res.val)
                 e_y == Subscript(Subscript(Subscript(Subscript(
                          data, "outputs"), "totals"), "fixed"), "E_y")
                 avg == TrueDiv(e_y, DaysPerYear)
             IN  IF avg.exc # "" THEN Handle(avg.exc, url, TRUE)
                 ELSE Returned(avg.val, url, None, TRUE)
        ELSE Returned(None, url, StatusError(res.val.status_code), FALSE)

\* ------------------------------------------------------------------------
\* Detection and estimation
\* ------------------------------------------------------------------------
Df(rows) == [t |-> "df", rows |-> rows]

\* Detection boxes in pixel coordinates, xmin < xmax and ymin < ymax.
Boxes == {b \in [name : {"solar_panel"}, xmin : 0..MaxCoord,
                  ymin : 0..MaxCoord, xmax : 0..MaxCoord,
                  ymax : 0..MaxCoord] : b.xmin < b.xmax /\ b.ymin < b.ymax}

Tables == UNION {[1..n -> Boxes] : n \in 0..MaxDetections}

\* What a run of the detector can come to: a table of detections (possibly
\* empty) or a failure to run.
DetectorOutcomes == {[failed |-> FALSE, rows |-> t] : t \in Tables}
                    \cup {[failed |-> TRUE, rows |-> <<>>]}

\* detect_panels(image_path, model_path) -> (detected_img, detection_df)
detect_panels(image_path, model_path, outcome) ==
    IF outcome.failed THEN <<None, None>>
    ELSE <<Str("annotated"), Df(outcome.rows)>>

\* estimate_energy(total_area_m2, irradiance, efficiency, loss)
estimate_energy(total_area_m2, irradiance, panel_eff, loss) ==
    LET daily == RatMul(RatMul(RatMul(total_area_m2, irradiance), panel_eff),
                        RatSub(Whole(1), loss))
    IN  <<daily, RatMul(daily, Whole(DaysPerYear))>>

\* detection_df is not None and not detection_df.empty
HasDetectionsNoNoneCheck(df) ==
    IF df.t = "None" THEN Raise("AttributeError") ELSE Ok(df.rows # <<>>)
HasDetectionsNoEmptyCheck(df) == Ok(df.t # "None")
HasDetections(df) ==
    IF df.t = "None" THEN Ok(FALSE) ELSE Ok(df.rows # <<>>)

\* (df["xmax"] - df["xmin"]) * (df["ymax"] - df["ymin"]) for one row
AreaPxWidthOnly(row) == Whole(row.xmax - row.xmin)
AreaPx(row) == Whole((row.xmax - row.xmin) * (row.ymax - row.ymin))

\* df["area_px"] * (scale_m_per_px ** 2) for one row
AreaM2(area_px, scale) == RatMul(area_px, RatMul(scale, scale))

\* The two column assignments.
WithAreas(rows, scale) ==
    [i \in DOMAIN rows |->
        LET a == AreaPx(rows[i])
        IN  rows[i] @@ ("area_px" :> a) @@ ("area_m2" :> AreaM2(a, scale))]

\* df[col].sum()
RECURSIVE ColumnSum(_, _)
ColumnSum(rows, col) ==
    IF rows = <<>> THEN Whole(0)
    ELSE RatAdd(ColumnSum(SubSeq(rows, 1, Len(rows) - 1), col),
                rows[Len(rows)][col])

NoEnergyCall == Unset
EnergyCall(area, irradiance, panel_eff, loss) ==
    [t |-> "call", total_area_m2 |-> area, irradiance |-> irradiance,
     panel_efficiency |-> panel_eff, system_loss |-> loss]

\* Lines 109-129: what the pass binds, calls and displays once the detector
\* has returned.
DetectionSection(df, scale, irradiance, panel_eff, loss) ==
    LET cond == HasDetections(df)
    IN  IF cond.exc # "" THEN
            [exc |-> cond.exc, df |-> df,
             total_area_px |-> Unset, total_area_m2 |-> Unset,
             call |-> NoEnergyCall, daily |-> Unset, yearly |-> Unset,
             shown |-> {}, logged |-> {}]
        ELSE IF cond.val THEN
            LET rows == WithAreas(df.rows, scale)
                px == ColumnSum(rows, "area_px")
                m2 == ColumnSum(rows, "area_m2")
                kwh == estimate_energy(m2, irradiance, panel_eff, loss)
            IN  [exc |-> "", df |-> Df(rows),
                 total_area_px |-> px, total_area_m2 |-> m2,
                 call |-> EnergyCall(m2, irradiance, panel_eff, loss),
                 daily |-> kwh[1], yearly |-> kwh[2],
                 shown |-> {"detection_results", "detected_image",
                            "detection_table", "total_area_px",
                            "total_area_m2", "daily_output",
                            "yearly_output"},
                 logged |-> {}]
        ELSE
            [exc |-> "", df |-> df,
             total_area_px |-> Unset, total_area_m2 |-> Unset,
             call |-> NoEnergyCall, daily |-> Unset, yearly |-> Unset,
             shown |-> {"no_panels_warning"},
             logged |-> {"Detection result: empty"}]

\* ------------------------------------------------------------------------
\* The session
\* ------------------------------------------------------------------------
VARIABLES
    pc,                          \* where the pass is
    fault,                       \* the exception that ended the pass, or ""
    uploaded_file,               \* whether the uploader holds a file
    selected_model_path,
    latitude, longitude,
    panel_efficiency, system_loss, scale_m_per_px,
    pvgis_reply,                 \* what the network did with the request
    fetched,                     \* what get_avg_irradiance returned
    irradiance_kwh_per_m2_day, pvgis_url, error_msg,
    image_path,                  \* the temporary file of this pass
    detector_called,
    detected_img, detection_df,
    total_area_px, total_area_m2,
    energy_call,                 \* the arguments estimate_energy was given
    daily_energy_kwh, yearly_energy_kwh,
    shown,                       \* what the page displays in this pass
    logged

widgets == <<uploaded_file, selected_model_path, latitude, longitude,
             panel_efficiency, system_loss, scale_m_per_px>>
pvgis == <<pvgis_reply, fetched, irradiance_kwh_per_m2_day, pvgis_url,
           error_msg>>
detection == <<image_path, detector_called, detected_img, detection_df>>
results == <<total_area_px, total_area_m2, energy_call, daily_energy_kwh,
             yearly_energy_kwh>>
vars == <<pc, fault, widgets, pvgis, detection, results, shown, logged>>

\* The names a pass binds are unbound when the script starts over; the
\* widgets keep what the user entered.
FreshPass ==
    /\ fault' = ""
    /\ pvgis_reply' = Unset /\ fetched' = Unset
    /\ irradiance_kwh_per_m2_day' = Unset
    /\ pvgis_url' = Unset /\ error_msg' = Unset
    /\ image_path' = Unset /\ detector_called' = FALSE
    /\ detected_img' = Unset /\ detection_df' = Unset
    /\ total_area_px' = Unset /\ total_area_m2' = Unset
    /\ energy_call' = NoEnergyCall
    /\ daily_energy_kwh' = Unset /\ yearly_energy_kwh' = Unset
    /\ shown' = {} /\ logged' = {}
    /\ UNCHANGED widgets

Init ==
    /\ pc = "import"
    /\ fault = ""
    /\ uploaded_file = FALSE
    /\ selected_model_path = Unset
    /\ latitude = Unset /\ longitude = Unset
    /\ panel_efficiency = Unset /\ system_loss = Unset
    /\ scale_m_per_px = Unset
    /\ pvgis_reply = Unset /\ fetched = Unset
    /\ irradiance_kwh_per_m2_day = Unset
    /\ pvgis_url = Unset /\ error_msg = Unset
    /\ image_path = Unset /\ detector_called = FALSE
    /\ detected_img = Unset /\ detection_df = Unset
    /\ total_area_px = Unset /\ total_area_m2 = Unset
    /\ energy_call = NoEnergyCall
    /\ daily_energy_kwh = Unset /\ yearly_energy_kwh = Unset
    /\ shown = {} /\ logged = {}

\* Lines 18-25: the imports succeed, or the error is shown and re-raised.
ImportModules ==
    /\ pc = "import"
    /\ \E ok \in BOOLEAN :
        IF ok THEN /\ pc' = "widgets"
                   /\ UNCHANGED <<fault, shown>>
        ELSE /\ pc' = "aborted"
             /\ fault' = "ImportError"
             /\ shown' = {"import_failed"}
    /\ UNCHANGED <<widgets, pvgis, detection, results, logged>>

\* Lines 28-62: the page header, the uploader and the sidebar widgets.
ReadWidgets ==
    /\ pc = "widgets"
    /\ uploaded_file' \in BOOLEAN
    /\ \E name \in DOMAIN model_options :
        selected_model_path' = model_options[name]
    /\ latitude' = DefaultLatitude
    /\ longitude' = DefaultLongitude
    /\ \E pct \in NumberInput(EfficiencyTyped, None, None) :
        panel_efficiency' = RatDivInt(pct, 100)
    /\ \E pct \in NumberInput(LossTyped, None, None) :
        system_loss' = RatDivInt(pct, 100)
    /\ scale_m_per_px' \in NumberInput(ScaleTyped, ScaleMin, ScaleMax)
    /\ shown' = shown \cup {"title", "uploader", "sidebar"}
    /\ pc' = "pvgis"
    /\ UNCHANGED <<fault, pvgis, detection, results, logged>>

\* Line 76: the call of get_avg_irradiance and the tuple assignment.
FetchIrradiance ==
    /\ pc = "pvgis"
    /\ \E i \in 1..Len(NetOutcomes) :
        LET r == get_avg_irradiance(latitude, longitude, NetOutcomes[i])
        IN  /\ pvgis_reply' = NetOutcomes[i]
            /\ fetched' = r
            /\ IF r.raised # ""
               THEN /\ pc' = "crashed"
                    /\ fault' = r.raised
                    /\ UNCHANGED <<irradiance_kwh_per_m2_day, pvgis_url,
                                   error_msg>>
               ELSE /\ pc' = "irradiance"
                    /\ irradiance_kwh_per_m2_day' = r.value
                    /\ pvgis_url' = r.url
                    /\ error_msg' = r.error
                    /\ UNCHANGED fault
    /\ UNCHANGED <<widgets, detection, results, shown, logged>>

\* Lines 78-79: the fetched irradiance is reported.
ShowIrradiance ==
    /\ pc = "irradiance"
    /\ Truthy(irradiance_kwh_per_m2_day)
    /\ shown' = shown \cup {"irradiance_success"}
    /\ pc' = "upload"
    /\ UNCHANGED <<fault, widgets, pvgis, detection, results, logged>>

\* Lines 80-87: warning, manual input, retry button, debug expander.  A
\* pressed retry button starts the script over before the expander.
ManualFallback ==
    /\ pc = "irradiance"
    /\ ~Truthy(irradiance_kwh_per_m2_day)
    /\ \E manual \in NumberInput(ManualTyped, None, None), retry \in BOOLEAN :
        IF retry
        THEN /\ pc' = "widgets"
             /\ FreshPass
        ELSE /\ irradiance_kwh_per_m2_day' = manual
             /\ shown' = shown \cup {"irradiance_warning", "manual_input",
                                     "retry_button", "debug_info"}
             /\ pc' = "upload"
             /\ UNCHANGED <<fault, widgets, pvgis_reply, fetched, pvgis_url,
                            error_msg, detection, results, logged>>

\* not uploaded_file
NoUploadUnguarded(file) == FALSE
NoUpload(file) == ~file

\* Lines 90-92: without an upload the pass stops here.
UploadGuard ==
    /\ pc = "upload"
    /\ NoUpload(uploaded_file)
    /\ shown' = shown \cup {"upload_prompt"}
    /\ pc' = "stopped"
    /\ UNCHANGED <<fault, widgets, pvgis, detection, results, logged>>

\* Lines 94-103: the upload is shown and written to a temporary file.
SaveUpload ==
    /\ pc = "upload"
    /\ ~NoUpload(uploaded_file)
    /\ logged' = logged \cup {"Image uploaded"}
    /\ shown' = shown \cup {"uploaded_image", "image_dimensions"}
    /\ image_path' = Str("tmp.jpg")
    /\ pc' = "detect"
    /\ UNCHANGED <<fault, widgets, pvgis, detector_called, detected_img,
                   detection_df, results>>

\* Lines 105-107: the detector runs on the temporary file.
RunDetection ==
    /\ pc = "detect"
    /\ \E outcome \in DetectorOutcomes :
        LET r == detect_panels(image_path, selected_model_path, outcome)
        IN  /\ detected_img' = r[1]
            /\ detection_df' = r[2]
    /\ detector_called' = TRUE
    /\ pc' = "results"
    /\ UNCHANGED <<fault, widgets, pvgis, image_path, results, shown, logged>>

\* Lines 109-129: areas and energy, or the no-detections warning.
ShowResults ==
    /\ pc = "results"
    /\ LET r == DetectionSection(detection_df, scale_m_per_px,
                                 irradiance_kwh_per_m2_day,
                                 panel_efficiency, system_loss)
       IN  /\ detection_df' = r.df
           /\ total_area_px' = r.total_area_px
           /\ total_area_m2' = r.total_area_m2
           /\ energy_call' = r.call
           /\ daily_energy_kwh' = r.daily
           /\ yearly_energy_kwh' = r.yearly
           /\ shown' = shown \cup r.shown
           /\ logged' = logged \cup r.logged
           /\ fault' = r.exc
           /\ pc' = IF r.exc # "" THEN "crashed" ELSE "done"
    /\ UNCHANGED <<widgets, pvgis, image_path, detector_called, detected_img>>

\* Any interaction with the page runs the script again from the top.
Rerun ==
    /\ pc \in {"done", "stopped", "crashed"}
    /\ pc' = "widgets"
    /\ FreshPass

Next ==
    \/ ImportModules
    \/ ReadWidgets
    \/ FetchIrradiance
    \/ ShowIrradiance
    \/ ManualFallback
    \/ UploadGuard
    \/ SaveUpload
    \/ RunDetection
    \/ ShowResults
    \/ Rerun

Spec == Init /\ [][Next]_vars

\* ------------------------------------------------------------------------
\* Properties
\* ------------------------------------------------------------------------
Called == fetched # Unset

\* u is the URL of the request for the location entered in the sidebar.
IsRequestUrl(u) ==
    /\ u.endpoint = "https://re.jrc.ec.europa.eu/api/v5_2/PVcalc"
    /\ u.lat = latitude /\ u.lon = longitude
    /\ u.outputformat = "json" /\ u.peakpower = 1 /\ u.loss = 14

\* The reply is HTTP 200 with a JSON body that lacks one of the keys
\* outputs / totals / fixed / E_y.
MissingKey(reply) ==
    /\ reply.kind = "response" /\ reply.status_code = HttpOk
    /\ reply.body.json
    /\ LET d0 == reply.body.doc.items
       IN  \/ "outputs" \notin DOMAIN d0
           \/ "totals" \notin DOMAIN d0["outputs"].items
           \/ "fixed" \notin DOMAIN d0["outputs"].items["totals"].items
           \/ "E_y" \notin
                DOMAIN d0["outputs"].items["totals"].items["fixed"].items

UnparsableBody(reply) ==
    /\ reply.kind = "response" /\ reply.status_code = HttpOk
    /\ ~reply.body.json

\* The exception each kind of failure produces.
FailureName(reply) ==
    IF reply.kind = "exception" THEN reply.exc
    ELSE IF UnparsableBody(reply) THEN "JSONDecodeError" ELSE "KeyError"

\* C1: whenever the request times out, cannot connect, or is answered with
\* HTTP 200 and a body that is not JSON or lacks outputs/totals/fixed/E_y,
\* get_avg_irradiance returns (None, url, message of that failure) and no
\* exception escapes it.
C1_NeverRaises ==
    (Called /\ (\/ pvgis_reply.kind = "exception"
                \/ UnparsableBody(pvgis_reply)
                \/ MissingKey(pvgis_reply)))
    => /\ fetched.raised = "" /\ fault = "" /\ pc # "crashed"
       /\ fetched.value = None
       /\ IsRequestUrl(fetched.url)
       /\ fetched.error.kind = "str(e)"
       /\ fetched.error.exc = FailureName(pvgis_reply)

C1_Witness ==
    /\ pc = "irradiance"
    /\ MissingKey(pvgis_reply)
    /\ "outputs" \in DOMAIN pvgis_reply.body.doc.items
    /\ fetched.value = None
    /\ error_msg.exc = "KeyError"

\* C2: a reply with a status other than 200 makes get_avg_irradiance return
\* (None, url, message naming that status) without calling res.json().
C2_Non200 ==
    (Called /\ pvgis_reply.kind = "response"
            /\ pvgis_reply.status_code # 200)
    => /\ fetched.raised = ""
       /\ fetched.value = None
       /\ IsRequestUrl(fetched.url)
       /\ fetched.error.kind = "PVGIS error: status"
       /\ fetched.error.detail = pvgis_reply.status_code
       /\ ~fetched.parsed

C2_Witness ==
    /\ pc = "irradiance"
    /\ pvgis_reply.kind = "response"
    /\ pvgis_reply.status_code = 500
    /\ pvgis_reply.body.json
    /\ error_msg.detail = 500

\* The number under outputs.totals.fixed.E_y of a well-formed reply.
WellFormed(reply) ==
    /\ reply.kind = "response" /\ reply.status_code = 200
    /\ reply.body.json
    /\ ~MissingKey(reply)
    /\ reply.body.doc.items["outputs"].items["totals"].items["fixed"]
            .items["E_y"].t = "num"
YearlyYield(reply) ==
    reply.body.doc.items["outputs"].items["totals"].items["fixed"].items["E_y"]

\* C3: a 200 reply whose outputs.totals.fixed.E_y is the number E makes
\* get_avg_irradiance return (v, url, None) with v * 365 = E.
C3_DailyAverage ==
    (Called /\ WellFormed(pvgis_reply))
    => /\ fetched.raised = ""
       /\ fetched.value.t = "num"
       /\ RatMul(fetched.value, Whole(365)) = YearlyYield(pvgis_reply)
       /\ IsRequestUrl(fetched.url)
       /\ fetched.error = None

C3_Witness ==
    /\ pc = "upload"
    /\ WellFormed(pvgis_reply)
    /\ YearlyYield(pvgis_reply) = Whole(2000)
    /\ irradiance_kwh_per_m2_day = Num(400, 73)
    /\ error_msg = None

FallbackItems == {"irradiance_warning", "manual_input", "debug_info"}

\* C4: in every pass where get_avg_irradiance returned a number and no
\* error, the irradiance in use (and the one given to estimate_energy) is
\* that number and the manual fallback is not shown.
C4_ManualOnlyOnFailure ==
    (Called /\ fetched.raised = "" /\ fetched.value.t = "num"
            /\ fetched.error = None)
    => /\ irradiance_kwh_per_m2_day = fetched.value
       /\ shown \cap FallbackItems = {}
       /\ (energy_call # NoEnergyCall
             => energy_call.irradiance = fetched.value)

NotComputed ==
    /\ total_area_px = Unset /\ total_area_m2 = Unset
    /\ energy_call = NoEnergyCall
    /\ daily_energy_kwh = Unset /\ yearly_energy_kwh = Unset

EmptyTablePass == pc \in {"done", "crashed"} /\ detection_df = Df(<<>>)

SectionItems == {"detection_results", "detected_image", "detection_table",
                 "total_area_px", "total_area_m2", "daily_output",
                 "yearly_output", "no_panels_warning"}

\* C7: a pass whose detector failed to run (absent table) does not show what
\* the same pass shows for an empty table.
C7_FailureDistinguished ==
    (pc = "done" /\ detection_df = None)
    => LET empty == DetectionSection(Df(<<>>), scale_m_per_px,
                                     irradiance_kwh_per_m2_day,
                                     panel_efficiency, system_loss)
       IN  \/ shown \cap SectionItems # empty.shown
           \/ logged \ {"Image uploaded"} # empty.logged

\* C8: whenever estimate_energy is called, panel_efficiency is in (0,1] and
\* system_loss is in [0,1).
C8_ParametersInRange ==
    energy_call # NoEnergyCall
    => /\ RatLess(Whole(0), energy_call.panel_efficiency)
       /\ RatLeq(energy_call.panel_efficiency, Whole(1))
       /\ RatLeq(Whole(0), energy_call.system_loss)
       /\ RatLess(energy_call.system_loss, Whole(1))

\* C9: a pass without an upload never gets past the upload guard: no
\* temporary file, no detector call, no estimate_energy call; and the
\* detector is called only with an upload and its temporary file present.
C9_NoUploadHalts ==
    /\ ~uploaded_file
         => /\ pc \notin {"detect", "results", "done"}
            /\ image_path = Unset
            /\ ~detector_called
            /\ energy_call = NoEnergyCall
    /\ pc = "stopped" => ~uploaded_file /\ "upload_prompt" \in shown
    /\ detector_called => uploaded_file /\ image_path # Unset

C9_Witness ==
    /\ pc = "stopped"
    /\ ~uploaded_file
    /\ "upload_prompt" \in shown
    /\ image_path = Unset

\* The unit pixels a box covers.
Pixels(row) == (row.xmin .. row.xmax - 1) \X (row.ymin .. row.ymax - 1)

RECURSIVE SumFrom(_, _, _)
SumFrom(rows, col, i) ==
    IF i > Len(rows) THEN Whole(0)
    ELSE RatAdd(rows[i][col], SumFrom(rows, col, i + 1))

\* C10: after the area computation on a non-empty table, every row with
\* xmin<xmax and ymin<ymax has area_px = width * height and
\* area_m2 = area_px * scale^2, and the totals are the sums of the rows.
C10_Areas ==
    (pc = "done" /\ detection_df.t = "df" /\ detection_df.rows # <<>>)
    => LET rows == detection_df.rows
       IN  /\ \A i \in DOMAIN rows :
                (rows[i].xmin < rows[i].xmax /\ rows[i].ymin < rows[i].ymax)
                => /\ rows[i].area_px = Whole(Cardinality(Pixels(rows[i])))
                   /\ rows[i].area_m2 =
                        RatMul(RatMul(rows[i].area_px, scale_m_per_px),
                               scale_m_per_px)
           /\ total_area_px = SumFrom(rows, "area_px", 1)
           /\ total_area_m2 = SumFrom(rows, "area_m2", 1)

C10_Witness ==
    /\ pc = "done"
    /\ detection_df.t = "df"
    /\ Len(detection_df.rows) = 2
    /\ detection_df.rows[1].area_px = Whole(4)
    /\ detection_df.rows[2].area_px = Whole(2)
    /\ total_area_px = Whole(6)
    /\ scale_m_per_px = Num(2, 25)
    /\ total_area_m2 = Num(24, 625)

====
